---- MODULE Spec2Model ----
(***************************************************************************)
(* The request dispatchers of the e1000d and nvmed drivers.                *)
(*                                                                         *)
(* Both drivers multiplex an interrupt file and a client socket, hand each *)
(* client packet to the device handler and keep the packets the handler    *)
(* could not complete yet in the list `todo`, which is retried later.      *)
(* One step of the model is one event handled by the driver (one callback  *)
(* of e1000d's event queue, one iteration of nvmed's 'events loop), or one *)
(* step of the hardware.  `log` holds the operations the driver performed  *)
(* while it handled the most recent event, in program order.               *)
(*                                                                         *)
(* The device handlers (Intel8254x::handle, DiskScheme::handle) and the    *)
(* claim checks (irq()) are not part of these files: the handler answers   *)
(* the would-block sentinel until the hardware has completed the request,  *)
(* and the claim check, like every read and write of a file, is an input.  *)
(* Callbacks of e1000d always return Ok(None), so event_queue.run() only   *)
(* returns with an error and the statements after it are never reached.    *)
(*                                                                         *)
(* Further specifications over the same module: PassSpec runs one retry    *)
(* pass an iteration at a time; TrbSpec interleaves the stores of Trb::set *)
(* and the loads of Trb::clone of xhcid with the controller; CodecSpec     *)
(* applies the constructors and accessors of Trb to words kept as sets of  *)
(* bit positions; PciSpec steps pcid's PciBusIter.  Each specification     *)
(* leaves the variables of the others at their idle values.                *)
(***************************************************************************)
EXTENDS Integers, Sequences, FiniteSets, TLC

\* Bounds of the model.
MaxReq == 3        \* packets the client sends over the life of the driver

\* syscall::error::EWOULDBLOCK, imported by e1000d; ENOSYS is the syscall
\* crate's answer to a packet whose operation it does not know.
EWOULDBLOCK == 41
ENOSYS == 38

Drivers == {"e1000d", "nvmed"}
Ops == {3, 4}                    \* operation codes a client puts in packet.a
\* The requests the client sends, as <<operation (packet.a), target (packet.b)>>.
Shapes == {<<3, 1>>, <<4, 2>>}
WouldBlock == -EWOULDBLOCK       \* (-EWOULDBLOCK) as usize
Results == {0, -5}               \* a success value and a genuine device error
IrqLen == 8                      \* let mut irq = [0; 8]

VARIABLES
    drv,        \* which driver this behaviour is a run of
    running,    \* the driver has neither left its loop nor panicked
    todo,       \* Vec<Packet>: the parked requests
    nextId,     \* id of the next packet the client sends
    dev,        \* device: what the handler answers for request id
    resp,       \* transport: the responses written to each request of the client
    log,        \* operations of the most recent event, in program order
    \* one transfer request block of xhcid, shared with the controller
    trb,        \* the block in memory: its data, status and control words
    want,       \* the words the producer of the block is storing
    pend,       \* stores of a Trb::set in progress, in program order
    reads,      \* loads of a Trb::clone in progress, in program order
    copy,       \* the Trb a clone is building
    seen,       \* the words the controller fetched last
    call,       \* the constructor called last, with its arguments
    dec,        \* what the accessors returned last
    \* one bus iteration of pcid
    iter,       \* PciBusIter: the bus and the counter num
    yielded,    \* what next() has returned so far, in order
    \* one retry pass, statement by statement
    pass        \* the loop state of the pass

dispVars == <<drv, running, todo, nextId, dev, resp, log>>
trbVars == <<trb, want, pend, reads, copy, seen, call, dec>>
pciVars == <<iter, yielded>>
vars == <<dispVars, trbVars, pciVars, pass>>

\* Words are sets of bit positions: bit b of the word is set iff b is in it.
NoTrb == [data |-> {}, status |-> {}, control |-> {}]

\* The parts of the state a specification does not use stay as they are here.
DispIdle ==
    /\ drv = "e1000d" /\ running = FALSE /\ todo = <<>> /\ nextId = 1
    /\ dev = <<>> /\ resp = <<>> /\ log = <<>>

TrbIdle ==
    /\ trb = NoTrb /\ want = NoTrb /\ pend = <<>> /\ reads = <<>>
    /\ copy = NoTrb /\ seen = NoTrb /\ call = <<>> /\ dec = <<>>

PciIdle == iter = <<>> /\ yielded = <<>>

PassIdle == pass = <<>>

Packet(id, a, b) == [id |-> id, a |-> a, b |-> b]
DefaultPacket == Packet(0, 0, 0)

\* One operation of the log: what was done, on which packet, with what value.
Entry(op, p, v) == [op |-> op, id |-> p.id, b |-> p.b, v |-> v]

\* Faulty variants of push and remove: the packet goes to the front, the
\* packet is not kept, the entry after the intended one is removed.
PushFront(l, p) == <<p>> \o l

PushDrop(l, p) == l

RemoveAtNext(s, i) == [j \in 1..(Len(s) - 1) |-> IF j <= i THEN s[j] ELSE s[j + 1]]

\* Vec::push and Vec::remove on todo.
Push(l, p) == Append(l, p)

RemoveAt(s, i) == [j \in 1..(Len(s) - 1) |-> IF j < i THEN s[j] ELSE s[j + 1]]

\* The value the device handler leaves for packet p: the would-block
\* sentinel until the hardware has completed the request, its result after.
Handle(p) == IF p.a \notin Ops THEN -ENOSYS ELSE dev[p.id]

\* SchemeBlockMut::handle of nvmed: None for would-block, Some(a) otherwise.
NvmeHandle(p) == IF Handle(p) = WouldBlock THEN <<>> ELSE <<Handle(p)>>

\* The state a handler threads through its statements.
Start(first) ==
    [todo |-> todo, resp |-> resp, log |-> <<first>>, ok |-> TRUE, nw |-> 0, i |-> 1]

Note(st, e) == [st EXCEPT !.log = Append(@, e)]

Fail(st, e) == [st EXCEPT !.log = Append(@, e), !.ok = FALSE]

\* socket.write(&packet): the wfail-th write of the event fails.
SockWrite(st, p, wfail) ==
    IF st.nw + 1 = wfail
    THEN [Fail(st, Entry("write_err", p, p.a)) EXCEPT !.nw = @ + 1]
    ELSE [Note(st, Entry("write", p, p.a)) EXCEPT
              !.nw = @ + 1,
              !.resp = IF p.id \in DOMAIN @ THEN [@ EXCEPT ![p.id] = Append(@, p.a)] ELSE @]

-----------------------------------------------------------------------------
\* e1000d

\* Faulty variant: every error value is taken for the would-block sentinel.
IsError(h) == h < 0

\* packet.a == (-EWOULDBLOCK) as usize
IsWouldBlock(h) == h = WouldBlock

\* Faulty variant of the loop body: the pass ends at the first packet that
\* would still block.
E1000RetryBodyStop(st, wfail) ==
    LET i == st.i
        a == st.todo[i].a
        s1 == [Note(st, Entry("handle", st.todo[i], Handle(st.todo[i]))) EXCEPT
                   !.todo[i].a = Handle(st.todo[i])]
        s2 == SockWrite(s1, s1.todo[i], wfail)
    IN IF IsWouldBlock(s1.todo[i].a)
       THEN [s1 EXCEPT !.todo[i].a = a, !.i = Len(st.todo) + 1]
       ELSE IF ~s2.ok THEN s2
       ELSE [s2 EXCEPT !.todo = RemoveAt(@, i)]

\* Faulty variant of the loop body: a packet that would still block is
\* neither passed over nor removed.
E1000RetryBodyStay(st, wfail) ==
    LET i == st.i
        a == st.todo[i].a
        s1 == [Note(st, Entry("handle", st.todo[i], Handle(st.todo[i]))) EXCEPT
                   !.todo[i].a = Handle(st.todo[i])]
        s2 == SockWrite(s1, s1.todo[i], wfail)
    IN IF IsWouldBlock(s1.todo[i].a)
       THEN [s1 EXCEPT !.todo[i].a = a]
       ELSE IF ~s2.ok THEN s2
       ELSE [s2 EXCEPT !.todo = RemoveAt(@, i)]

\* Faulty variant of the loop body: a packet that would still block keeps
\* the value the handler left in a.
E1000RetryBodyNoRestore(st, wfail) ==
    LET i == st.i
        s1 == [Note(st, Entry("handle", st.todo[i], Handle(st.todo[i]))) EXCEPT
                   !.todo[i].a = Handle(st.todo[i])]
        s2 == SockWrite(s1, s1.todo[i], wfail)
    IN IF IsWouldBlock(s1.todo[i].a)
       THEN [s1 EXCEPT !.i = i + 1]
       ELSE IF ~s2.ok THEN s2
       ELSE [s2 EXCEPT !.todo = RemoveAt(@, i)]

\* The body of `while i < todo.len()` in the irq callback, for st.i (which
\* counts from 1): handle todo[i]; on would-block restore a and go on to
\* the next index, else write the packet back and remove it.
E1000RetryBody(st, wfail) ==
    LET i == st.i
        a == st.todo[i].a
        s1 == [Note(st, Entry("handle", st.todo[i], Handle(st.todo[i]))) EXCEPT
                   !.todo[i].a = Handle(st.todo[i])]
        s2 == SockWrite(s1, s1.todo[i], wfail)
    IN IF IsWouldBlock(s1.todo[i].a)
       THEN [s1 EXCEPT !.todo[i].a = a, !.i = i + 1]
       ELSE IF ~s2.ok THEN s2
       ELSE [s2 EXCEPT !.todo = RemoveAt(@, i)]

\* The while loop: the body is repeated until i is past the end of todo or
\* a write has failed (the `?` returns).  s is the loop state, evaluated
\* once per iteration.
RECURSIVE E1000Retry(_, _)
E1000Retry(st, wfail) ==
    CHOOSE r \in {IF ~s.ok \/ s.i > Len(s.todo) THEN s
                  ELSE E1000Retry(E1000RetryBody(s, wfail), wfail) : s \in {st}} : TRUE

\* Faulty variant: the parked requests are retried before the interrupt is
\* acknowledged.
E1000IrqCallbackRetryFirst(rd, claim, ackOk, wfail) ==
    LET s0 == Start(Entry("irq_read", DefaultPacket, IF rd THEN IrqLen ELSE -1))
        s1 == Note(s0, Entry("claim", DefaultPacket, IF claim THEN 1 ELSE 0))
        s2 == E1000Retry(s1, wfail)
    IN IF ~rd THEN [s0 EXCEPT !.ok = FALSE]
       ELSE IF ~claim THEN s1
       ELSE IF ~s2.ok THEN s2
       ELSE IF ~ackOk THEN Fail(s2, Entry("ack", DefaultPacket, -1))
       ELSE Note(s2, Entry("ack", DefaultPacket, 1))

E1000IrqCallback(rd, claim, ackOk, wfail) ==
    LET s0 == Start(Entry("irq_read", DefaultPacket, IF rd THEN IrqLen ELSE -1))
        s1 == Note(s0, Entry("claim", DefaultPacket, IF claim THEN 1 ELSE 0))
        s2 == Note(s1, Entry("ack", DefaultPacket, 1))
    IN IF ~rd THEN [s0 EXCEPT !.ok = FALSE]
       ELSE IF ~claim THEN s1
       ELSE IF ~ackOk THEN Fail(s1, Entry("ack", DefaultPacket, -1))
       ELSE E1000Retry(s2, wfail)

\* What a read of the socket returned, as the log records it: a packet,
\* zero bytes, the non-blocking "no data yet" error, or another error.
ReadValue(kind) ==
    CASE kind = "packet" -> 1
      [] kind = "zero" -> 0
      [] kind = "eagain" -> WouldBlock
      [] OTHER -> -5

E1000SocketCallback(kind, p, wfail) ==
    LET packet == IF kind = "packet" THEN p ELSE DefaultPacket
        s0 == Start(Entry("read", packet, ReadValue(kind)))
        a == packet.a
        handled == [packet EXCEPT !.a = Handle(packet)]
        s1 == Note(s0, Entry("handle", packet, handled.a))
    IN IF kind \in {"eagain", "error"} THEN [s0 EXCEPT !.ok = FALSE]
       ELSE IF IsWouldBlock(handled.a)
       THEN [Note(s1, Entry("push", packet, a)) EXCEPT
                 !.todo = Push(@, [handled EXCEPT !.a = a])]
       ELSE SockWrite(s1, handled, wfail)

Commit(s) ==
    /\ todo' = s.todo
    /\ resp' = s.resp
    /\ log' = s.log
    /\ running' = s.ok
    /\ UNCHANGED <<trbVars, pciVars, pass>>

\* What the irq file and the device answer during one interrupt event:
\* <<the read succeeds, the device claims the interrupt, the write succeeds>>.
IrqCases == {<<FALSE, FALSE, FALSE>>, <<TRUE, FALSE, FALSE>>,
             <<TRUE, TRUE, FALSE>>, <<TRUE, TRUE, TRUE>>}

\* The transport writes a retry pass over list l can reach.
Writes(l) == Cardinality({i \in 1..Len(l) : Handle(l[i]) # WouldBlock})

E1000Irq ==
    /\ drv = "e1000d" /\ running
    /\ \E c \in IrqCases, wfail \in 0..Writes(todo) :
          /\ (wfail > 0 => c[3])
          /\ Commit(E1000IrqCallback(c[1], c[2], c[3], wfail))
    /\ UNCHANGED <<drv, nextId, dev>>

E1000SocketPacket ==
    /\ drv = "e1000d" /\ running /\ nextId <= MaxReq
    /\ \E sh \in Shapes, wfail \in 0..1 :
          /\ (wfail > 0 => dev[nextId] # WouldBlock)
          /\ Commit(E1000SocketCallback("packet", Packet(nextId, sh[1], sh[2]), wfail))
    /\ nextId' = nextId + 1
    /\ UNCHANGED <<drv, dev>>

E1000SocketZero ==
    /\ drv = "e1000d" /\ running
    /\ \E wfail \in 0..1 :
          Commit(E1000SocketCallback("zero", DefaultPacket, wfail))
    /\ UNCHANGED <<drv, nextId, dev>>

E1000SocketError ==
    /\ drv = "e1000d" /\ running
    /\ \E kind \in {"eagain", "error"} :
          Commit(E1000SocketCallback(kind, DefaultPacket, 0))
    /\ UNCHANGED <<drv, nextId, dev>>

-----------------------------------------------------------------------------
\* nvmed

\* Faulty variant of the loop body: the packet written is read from todo
\* after the removal, so it is the entry that moved into the freed place.
NvmedRetryBodyAfterRemove(st, wfail) ==
    LET i == st.i
        o == NvmeHandle(st.todo[i])
        s1 == Note(st, Entry("handle", st.todo[i], IF o = <<>> THEN WouldBlock ELSE o[1]))
        rest == RemoveAt(st.todo, i)
        packet == [(IF i <= Len(rest) THEN rest[i] ELSE st.todo[i]) EXCEPT !.a = o[1]]
    IN IF o # <<>>
       THEN SockWrite([s1 EXCEPT !.todo = rest], packet, wfail)
       ELSE [s1 EXCEPT !.i = i + 1]

\* Faulty variant of the loop body: the index advances after a removal too,
\* so the entry that moved into the freed place is passed over.
NvmedRetryBodySkip(st, wfail) ==
    LET i == st.i
        o == NvmeHandle(st.todo[i])
        s1 == Note(st, Entry("handle", st.todo[i], IF o = <<>> THEN WouldBlock ELSE o[1]))
        packet == [st.todo[i] EXCEPT !.a = o[1]]
    IN IF o # <<>>
       THEN [SockWrite([s1 EXCEPT !.todo = RemoveAt(@, i)], packet, wfail) EXCEPT !.i = i + 1]
       ELSE [s1 EXCEPT !.i = i + 1]

\* The body of `while i < todo.len()` of the 'events loop, for st.i (which
\* counts from 1): on Some(a) the packet is removed, gets a as its result
\* and is written back; on None the loop goes on to the next index.
NvmedRetryBody(st, wfail) ==
    LET i == st.i
        o == NvmeHandle(st.todo[i])
        s1 == Note(st, Entry("handle", st.todo[i], IF o = <<>> THEN WouldBlock ELSE o[1]))
        packet == [st.todo[i] EXCEPT !.a = o[1]]
    IN IF o # <<>>
       THEN SockWrite([s1 EXCEPT !.todo = RemoveAt(@, i)], packet, wfail)
       ELSE [s1 EXCEPT !.i = i + 1]

\* The while loop: the body is repeated until i is past the end of todo or
\* a write has failed (the expect panics).  s is the loop state, evaluated
\* once per iteration.
RECURSIVE NvmedRetry(_, _)
NvmedRetry(st, wfail) ==
    CHOOSE r \in {IF ~s.ok \/ s.i > Len(s.todo) THEN s
                  ELSE NvmedRetry(NvmedRetryBody(s, wfail), wfail) : s \in {st}} : TRUE

\* Faulty variant of the irq branch: the irq file is written back whenever
\* the read was complete, whatever scheme.irq() answers.
NvmedIrqBranchAckAlways(rd, claim, ackOk) ==
    LET s0 == Note(Start(Entry("event", DefaultPacket, 0)),
                   Entry("irq_read", DefaultPacket, IF rd = "full" THEN IrqLen ELSE 0))
        s1 == Note(s0, Entry("claim", DefaultPacket, IF claim THEN 1 ELSE 0))
    IN IF rd = "error" THEN [s0 EXCEPT !.ok = FALSE]
       ELSE IF rd = "short" THEN s0
       ELSE Note(s1, Entry("ack", DefaultPacket, 1))

\* match event.data { 0 => ... }
NvmedIrqBranch(rd, claim, ackOk) ==
    LET s0 == Note(Start(Entry("event", DefaultPacket, 0)),
                   Entry("irq_read", DefaultPacket,
                         CASE rd = "full" -> IrqLen
                           [] rd = "short" -> 0
                           [] OTHER -> -1))
        s1 == Note(s0, Entry("claim", DefaultPacket, IF claim THEN 1 ELSE 0))
    IN IF rd = "error" THEN [s0 EXCEPT !.ok = FALSE]
       ELSE IF rd = "short" THEN s0
       ELSE IF ~claim THEN s1
       ELSE IF ~ackOk THEN Fail(s1, Entry("ack", DefaultPacket, -1))
       ELSE Note(s1, Entry("ack", DefaultPacket, 1))

\* match event.data { 1 => loop { ... } }: the packets ps are read and pushed,
\* then the read that ends the loop returns term.
RECURSIVE NvmedReadLoop(_, _, _)
NvmedReadLoop(st, ps, term) ==
    IF ps = <<>>
    THEN IF term = "eagain"
         THEN Note(st, Entry("read", DefaultPacket, ReadValue(term)))
         ELSE Fail(st, Entry("read", DefaultPacket, ReadValue(term)))
    ELSE LET packet == Head(ps)
             s1 == Note(st, Entry("read", packet, ReadValue("packet")))
             s2 == [Note(s1, Entry("push", packet, packet.a)) EXCEPT
                        !.todo = Push(@, packet)]
         IN NvmedReadLoop(s2, Tail(ps), term)

NvmedSocketBranch(ps, term) == NvmedReadLoop(Start(Entry("event", DefaultPacket, 1)), ps, term)

\* One iteration of the 'events loop: the branch of the event, then the
\* retry loop over todo unless the branch left the loop or panicked.
NvmedIteration(branch, wfail) == NvmedRetry(branch, wfail)

NvmedIrq ==
    /\ drv = "nvmed" /\ running
    /\ \E rd \in {"full", "short", "error"}, c \in IrqCases, wfail \in 0..Writes(todo) :
          /\ (rd = "full") = c[1]
          /\ (rd = "short" => ~c[2])
          /\ Commit(NvmedIteration(NvmedIrqBranch(rd, c[2], c[3]), wfail))
    /\ UNCHANGED <<drv, nextId, dev>>

NvmedSocket ==
    /\ drv = "nvmed" /\ running
    /\ \E k \in 0..(MaxReq + 1 - nextId) :
          /\ \E sh \in [1..k -> Shapes], term \in {"zero", "eagain", "error"},
                wfail \in 0..(Len(todo) + k) :
                LET ps == [j \in 1..k |-> Packet(nextId + j - 1, sh[j][1], sh[j][2])]
                IN /\ (wfail > 0 => term = "eagain" /\ wfail <= Writes(todo \o ps))
                   /\ Commit(NvmedIteration(NvmedSocketBranch(ps, term), wfail))
          /\ nextId' = nextId + k
    /\ UNCHANGED <<drv, dev>>

\* event_file.read returned 0 (break) or failed (panic).
NvmedEventFileEnd ==
    /\ drv = "nvmed" /\ running
    /\ Commit(Fail(Start(Entry("event", DefaultPacket, -1)), Entry("exit", DefaultPacket, 0)))
    /\ UNCHANGED <<drv, nextId, dev>>

-----------------------------------------------------------------------------
\* The hardware completes request r: from now on its handler answers v.
HwComplete(r) ==
    /\ running /\ dev[r] = WouldBlock
    /\ \E v \in Results : dev' = [dev EXCEPT ![r] = v]
    /\ log' = <<>>
    /\ UNCHANGED <<drv, running, todo, nextId, resp>>
    /\ UNCHANGED <<trbVars, pciVars, pass>>

Init ==
    /\ drv \in Drivers
    /\ running = TRUE
    /\ todo = <<>>
    /\ nextId = 1
    /\ dev = [r \in 1..MaxReq |-> WouldBlock]
    /\ resp = [r \in 1..MaxReq |-> <<>>]
    /\ log = <<>>
    /\ TrbIdle /\ PciIdle /\ PassIdle

Next ==
    \/ E1000Irq
    \/ E1000SocketPacket
    \/ E1000SocketZero
    \/ E1000SocketError
    \/ NvmedIrq
    \/ NvmedSocket
    \/ NvmedEventFileEnd
    \/ \E r \in 1..MaxReq : HwComplete(r)

Spec == Init /\ [][Next]_vars

-----------------------------------------------------------------------------
\* Runs without faults: the transport stays open, no read or write fails.

E1000IrqOk(claim) ==
    /\ drv = "e1000d" /\ running
    /\ Commit(E1000IrqCallback(TRUE, claim, TRUE, 0))
    /\ UNCHANGED <<drv, nextId, dev>>

E1000SocketOk ==
    /\ drv = "e1000d" /\ running /\ nextId <= MaxReq
    /\ \E sh \in Shapes :
          Commit(E1000SocketCallback("packet", Packet(nextId, sh[1], sh[2]), 0))
    /\ nextId' = nextId + 1
    /\ UNCHANGED <<drv, dev>>

NvmedIrqOk(claim) ==
    /\ drv = "nvmed" /\ running
    /\ Commit(NvmedIteration(NvmedIrqBranch("full", claim, TRUE), 0))
    /\ UNCHANGED <<drv, nextId, dev>>

NvmedSocketOk ==
    /\ drv = "nvmed" /\ running
    /\ \E k \in 0..(MaxReq + 1 - nextId) :
          /\ \E sh \in [1..k -> Shapes] :
                LET ps == [j \in 1..k |-> Packet(nextId + j - 1, sh[j][1], sh[j][2])]
                IN Commit(NvmedIteration(NvmedSocketBranch(ps, "eagain"), 0))
          /\ nextId' = nextId + k
    /\ UNCHANGED <<drv, dev>>

IrqClaimed == E1000IrqOk(TRUE) \/ NvmedIrqOk(TRUE)

IrqUnclaimed == E1000IrqOk(FALSE) \/ NvmedIrqOk(FALSE)

LiveNext ==
    \/ IrqClaimed
    \/ IrqUnclaimed
    \/ E1000SocketOk
    \/ NvmedSocketOk
    \/ \E r \in 1..MaxReq : HwComplete(r)

\* Interrupts the device claims keep arriving, and the hardware completes
\* every request in the end.
LiveSpec ==
    /\ Init /\ [][LiveNext]_vars
    /\ WF_vars(IrqClaimed)
    /\ WF_vars(\E r \in 1..MaxReq : HwComplete(r))

-----------------------------------------------------------------------------
\* xhcid: one transfer request block (Trb) in memory shared with the
\* controller.  A u32 or u64 word is the set of the positions of its set
\* bits, so that shifts, masks and casts act on bits as they do in the code.

Bits(n) == {b \in 0..30 : (n \div (2 ^ b)) % 2 = 1}      \* a literal below 2^31

RECURSIVE Value(_)
Value(w) == IF w = {} THEN 0
            ELSE LET b == CHOOSE x \in w : TRUE IN (2 ^ b) + Value(w \ {b})

Shl(w, n, width) == {b + n : b \in w} \cap (0..(width - 1))   \* w << n
Shr(w, n) == {b - n : b \in {x \in w : x >= n}}                \* w >> n
BitAnd(w, mask) == w \cap mask                                 \* w & mask
BitOr(w, v) == w \cup v                                        \* w | v
AsU8(w) == w \cap (0..7)                                       \* w as u8
FromBool(c) == IF c THEN {0} ELSE {}                           \* c as u32

\* enum TrbType, #[repr(u8)] without explicit discriminants: a variant's
\* value is its position in the declaration, counted from 0.
TrbTypeNames ==
    <<"Reserved", "Normal", "SetupStage", "DataStage", "StatusStage", "Isoch",
      "Link", "EventData", "NoOp", "EnableSlot", "DisableSlot", "AddressDevice",
      "ConfigureEndpoint", "EvaluateContext", "ResetEndpoint", "StopEndpoint",
      "SetTrDequeuePointer", "ResetDevice", "ForceEvent", "NegotiateBandwidth",
      "SetLatencyToleranceValue", "GetPortBandwidth", "ForceHeader", "NoOpCmd",
      "Rsv24", "Rsv25", "Rsv26", "Rsv27", "Rsv28", "Rsv29", "Rsv30", "Rsv31",
      "Transfer", "CommandCompletion", "PortStatusChange", "BandwidthRequest",
      "Doorbell", "HostController", "DeviceNotification", "MfindexWrap">>

TrbType(name) == (CHOOSE i \in 1..Len(TrbTypeNames) : TrbTypeNames[i] = name) - 1

\* Faulty variant of set: the control word is stored first.
SetControlFirst(data, status, control) ==
    <<[f |-> "control", v |-> control], [f |-> "data", v |-> data],
      [f |-> "status", v |-> status]>>

\* Trb::set: the stores it performs, in program order.
Set(data, status, control) ==
    <<[f |-> "data", v |-> data], [f |-> "status", v |-> status],
      [f |-> "control", v |-> control]>>

\* Mmio::write of one word.
Store(t, w) == [t EXCEPT ![w.f] = w.v]

\* Trb::clone: the loads it performs, in the order of the fields of the
\* struct expression.
CloneLoads == <<"data", "status", "control">>

\* Mmio::read of one word into the copy.
Load(c, t, f) == [c EXCEPT ![f] = t[f]]

Cycle(control) == 0 \in control

\* The blocks that pass through the slot: two data pointers, two status
\* words, either cycle bit.
TrbWords ==
    {[data |-> Bits(d), status |-> Bits(s),
      control |-> BitOr(Shl(Bits(TrbType("NoOpCmd")), 10, 32), FromBool(c))] :
         d \in {0, 4096}, s \in {0, 8}, c \in BOOLEAN}

\* Software starts to store a new block over the one in memory; the new
\* cycle bit is the opposite of the old one, which hands the block over.
SwSetBegin ==
    /\ want = NoTrb /\ pend = <<>> /\ reads = <<>>
    /\ \E w \in TrbWords :
          /\ Cycle(w.control) # Cycle(trb.control)
          /\ want' = w
          /\ pend' = Set(w.data, w.status, w.control)
    /\ call' = <<"set">>
    /\ UNCHANGED <<trb, reads, copy, seen, dec, dispVars, pciVars, pass>>

\* One store of the set in progress reaches memory.
SwStore ==
    /\ pend # <<>>
    /\ trb' = Store(trb, Head(pend))
    /\ pend' = Tail(pend)
    /\ UNCHANGED <<want, reads, copy, seen, call, dec, dispVars, pciVars, pass>>

\* The controller fetches the block.
HwFetch ==
    /\ seen' = trb
    /\ UNCHANGED <<trb, want, pend, reads, copy, call, dec, dispVars, pciVars, pass>>

\* The controller produces an event into the slot, in one transaction, with
\* the cycle bit flipped.
HwProduce ==
    /\ want = NoTrb
    /\ \E w \in TrbWords :
          /\ Cycle(w.control) # Cycle(trb.control)
          /\ want' = w
          /\ trb' = w
    /\ UNCHANGED <<pend, reads, copy, seen, call, dec, dispVars, pciVars, pass>>

\* Software starts to clone the block.
SwCloneBegin ==
    /\ pend = <<>> /\ reads = <<>> /\ call # <<"set">>
    /\ reads' = CloneLoads
    /\ copy' = NoTrb
    /\ call' = <<"clone">>
    /\ UNCHANGED <<trb, want, pend, seen, dec, dispVars, pciVars, pass>>

\* One load of the clone in progress.
SwLoad ==
    /\ reads # <<>>
    /\ copy' = Load(copy, trb, Head(reads))
    /\ reads' = Tail(reads)
    /\ UNCHANGED <<trb, want, pend, seen, call, dec, dispVars, pciVars, pass>>

TrbInit ==
    /\ trb \in TrbWords /\ seen = trb
    /\ want = NoTrb /\ pend = <<>> /\ reads = <<>> /\ copy = NoTrb
    /\ call = <<>> /\ dec = <<>>
    /\ DispIdle /\ PciIdle /\ PassIdle

TrbNext ==
    \/ SwSetBegin
    \/ SwStore
    \/ HwFetch
    \/ HwProduce
    \/ SwCloneBegin
    \/ SwLoad

TrbSpec == TrbInit /\ [][TrbNext]_vars

-----------------------------------------------------------------------------
\* xhcid: the accessors and constructors of Trb.

\* enum TrbCompletionCode, numbered like TrbType.
TrbCompletionCodeNames ==
    <<"Invalid", "Success", "DataBuffer", "BabbleDetected", "UsbTransaction",
      "Trb", "Stall", "Resource", "Bandwidth", "NoSlotsAvailable",
      "InvalidStreamType", "SlotNotEnabled", "EndpointNotEnabled", "ShortPacket",
      "RingUnderrun", "RingOverrun", "VfEventRingFull", "Parameter",
      "BandwidthOverrun", "ContextState", "NoPingResponse", "EventRingFull",
      "IncompatibleDevice", "MissedService", "CommandRingStopped",
      "CommandAborted", "Stopped", "StoppedLengthInvalid", "StoppedShortPacket",
      "MaxExitLatencyTooLarge", "Rsv30", "IsochBuffer", "EventLost", "Undefined",
      "InvalidStreamId", "SecondaryBandwidth", "SplitTransaction">>

TrbCompletionCode(name) ==
    (CHOOSE i \in 1..Len(TrbCompletionCodeNames) : TrbCompletionCodeNames[i] = name) - 1

TRB_STATUS_COMPLETION_CODE_SHIFT == 24
TRB_STATUS_COMPLETION_PARAM_MASK == 16777215        \* 0x00FF_FFFF
TRB_STATUS_TRANSFER_LENGTH_MASK == 16777215         \* 0x00FF_FFFF
TRB_CONTROL_TRB_TYPE_SHIFT == 10
TRB_CONTROL_TRB_TYPE_MASK == 64512                  \* 0x0000_FC00
TRB_CONTROL_ENDPOINT_ID_MASK == 2031616             \* 0x001F_0000
TRB_CONTROL_ENDPOINT_ID_SHIFT == 16

\* Faulty variant of event_slot: the shift is one bit short.
event_slot_short(t) == Value(AsU8(Shr(t.control, 23)))

completion_code(t) == Value(AsU8(Shr(t.status, TRB_STATUS_COMPLETION_CODE_SHIFT)))

completion_param(t) == Value(BitAnd(t.status, Bits(TRB_STATUS_COMPLETION_PARAM_MASK)))

event_slot(t) == Value(AsU8(Shr(t.control, 24)))

transfer_length(t) == Value(BitAnd(t.status, Bits(TRB_STATUS_TRANSFER_LENGTH_MASK)))

endpoint_id(t) ==
    Value(AsU8(Shr(BitAnd(t.control, Bits(TRB_CONTROL_ENDPOINT_ID_MASK)),
                   TRB_CONTROL_ENDPOINT_ID_SHIFT)))

trb_type(t) ==
    Value(AsU8(Shr(BitAnd(t.control, Bits(TRB_CONTROL_TRB_TYPE_MASK)),
                   TRB_CONTROL_TRB_TYPE_SHIFT)))

\* Faulty variant: the words are stored before the arguments are checked.
BuiltStoreFirst(ok, data, status, control) ==
    [ok |-> ok, writes |-> Set(data, status, control)]

\* The constructors.  Each one checks its arguments and then calls set:
\* the result says whether the assertions passed and which stores follow.
Built(ok, data, status, control) ==
    [ok |-> ok, writes |-> IF ok THEN Set(data, status, control) ELSE <<>>]

Field32(x, n) == Shl(Bits(x), n, 32)          \* u32::from(x) << n, (x as u32) << n
Flag32(c, n) == Shl(FromBool(c), n, 32)       \* u32::from(c) << n for a bool
Tag(name) == Field32(TrbType(name), 10)       \* (TrbType::X as u32) << 10

\* ptr & 0xFFFF_FFFF_FFFF_FFF0 == ptr
Aligned16(ptr) == BitAnd(Bits(ptr), 4..63) = Bits(ptr)

\* endp_num_xhc & 0x1F == endp_num_xhc
FiveBits(x) == BitAnd(Bits(x), Bits(31)) = Bits(x)

reserved(cycle) ==
    Built(TRUE, Bits(0), Bits(0), BitOr(Tag("Reserved"), FromBool(cycle)))

link(address, toggle, cycle) ==
    Built(TRUE, Bits(address), Bits(0),
          BitOr(BitOr(Tag("Link"), Flag32(toggle, 1)), FromBool(cycle)))

no_op_cmd(cycle) ==
    Built(TRUE, Bits(0), Bits(0), BitOr(Tag("NoOpCmd"), FromBool(cycle)))

enable_slot(slot_type, cycle) ==
    Built(TRUE, Bits(0), Bits(0),
          BitOr(BitOr(Shl(BitAnd(Bits(slot_type), Bits(31)), 16, 32), Tag("EnableSlot")),
                FromBool(cycle)))

address_device(slot_id, input_ctx_ptr, bsr, cycle) ==
    Built(Aligned16(input_ctx_ptr), Bits(input_ctx_ptr), Bits(0),
          BitOr(BitOr(BitOr(Field32(slot_id, 24), Tag("AddressDevice")), Flag32(bsr, 9)),
                FromBool(cycle)))

configure_endpoint(slot_id, input_ctx_ptr, cycle) ==
    Built(Aligned16(input_ctx_ptr), Bits(input_ctx_ptr), Bits(0),
          BitOr(BitOr(Field32(slot_id, 24), Tag("ConfigureEndpoint")), FromBool(cycle)))

evaluate_context(slot_id, input_ctx_ptr, bsr, cycle) ==
    Built(Aligned16(input_ctx_ptr), Bits(input_ctx_ptr), Bits(0),
          BitOr(BitOr(BitOr(Field32(slot_id, 24), Tag("EvaluateContext")), Flag32(bsr, 9)),
                FromBool(cycle)))

\* Faulty variant of reset_endpoint: the tsp flag is put at bit 10, inside
\* the type field.
reset_endpoint_tsp10(slot_id, endp_num_xhc, tsp, cycle) ==
    Built(FiveBits(endp_num_xhc), Bits(0), Bits(0),
          BitOr(BitOr(BitOr(BitOr(Field32(slot_id, 24), Field32(endp_num_xhc, 16)),
                            Tag("ResetEndpoint")),
                      Flag32(tsp, 10)),
                FromBool(cycle)))

reset_endpoint(slot_id, endp_num_xhc, tsp, cycle) ==
    Built(FiveBits(endp_num_xhc), Bits(0), Bits(0),
          BitOr(BitOr(BitOr(BitOr(Field32(slot_id, 24), Field32(endp_num_xhc, 16)),
                            Tag("ResetEndpoint")),
                      Flag32(tsp, 9)),
                FromBool(cycle)))

\* deque_ptr & 0xFFFF_FFFF_FFFF_FFF1 == deque_ptr; sct is a
\* StreamContextType, cast to u64.
set_tr_deque_ptr(deque_ptr, cycle, sct, stream_id, endp_num_xhc, slot) ==
    Built(BitAnd(Bits(deque_ptr), {0} \cup (4..63)) = Bits(deque_ptr)
              /\ FiveBits(endp_num_xhc),
          BitOr(Bits(deque_ptr), Shl(Bits(sct), 1, 64)),
          Field32(stream_id, 16),
          BitOr(BitOr(BitOr(Field32(slot, 24), Field32(endp_num_xhc, 16)),
                      Tag("SetTrDequeuePointer")),
                FromBool(cycle)))

stop_endpoint(slot_id, endp_num_xhc, suspend, cycle) ==
    Built(FiveBits(endp_num_xhc), Bits(0), Bits(0),
          BitOr(BitOr(BitOr(BitOr(Field32(slot_id, 24), Flag32(suspend, 23)),
                            Field32(endp_num_xhc, 16)),
                      Tag("StopEndpoint")),
                FromBool(cycle)))

reset_device(slot_id, cycle) ==
    Built(TRUE, Bits(0), Bits(0),
          BitOr(BitOr(Field32(slot_id, 24), Tag("ResetDevice")), FromBool(cycle)))

transfer_no_op(interrupter, ent, ch, ioc, cycle) ==
    Built(TRUE, Bits(0), Field32(interrupter, 22),
          BitOr(BitOr(BitOr(BitOr(Tag("NoOp"), Flag32(ioc, 5)), Flag32(ch, 4)),
                      Flag32(ent, 1)),
                FromBool(cycle)))

\* transfer is a TransferKind: NoData, Reserved, Out, In, cast to u32.
setup(setup_words, transfer, cycle) ==
    Built(TRUE, Bits(setup_words), Bits(8),
          BitOr(BitOr(BitOr(Field32(transfer, 16), Tag("SetupStage")), Field32(1, 6)),
                FromBool(cycle)))

data(buffer, length, input, cycle) ==
    Built(TRUE, Bits(buffer), Bits(length),
          BitOr(BitOr(Flag32(input, 16), Tag("DataStage")), FromBool(cycle)))

status(input, cycle) ==
    Built(TRUE, Bits(0), Bits(0),
          BitOr(BitOr(BitOr(Flag32(input, 16), Tag("StatusStage")), Field32(1, 5)),
                FromBool(cycle)))

normal(buffer, len, cycle, estimated_td_size, interrupter, ent, isp, chain, ioc, idt, bei) ==
    Built(FiveBits(estimated_td_size), Bits(buffer),
          BitOr(BitOr(Bits(len), Field32(estimated_td_size, 17)), Field32(interrupter, 22)),
          BitOr(BitOr(BitOr(BitOr(BitOr(BitOr(BitOr(FromBool(cycle), Flag32(ent, 1)),
                                                Flag32(isp, 2)),
                                          Flag32(chain, 4)),
                                    Flag32(ioc, 5)),
                              Flag32(idt, 6)),
                        Flag32(bei, 9)),
                Tag("Normal")))

\* What each constructor takes: the numbers among slot, endp, ptr and num,
\* and its flags.  The cycle bit is an argument of all of them.
Uses ==
    [reserved |-> {},
     link |-> {"ptr", "toggle"},
     no_op_cmd |-> {},
     enable_slot |-> {"num"},
     address_device |-> {"slot", "ptr", "bsr"},
     configure_endpoint |-> {"slot", "ptr"},
     evaluate_context |-> {"slot", "ptr", "bsr"},
     reset_endpoint |-> {"slot", "endp", "tsp"},
     set_tr_deque_ptr |-> {"ptr", "sct", "num", "endp", "slot"},
     stop_endpoint |-> {"slot", "endp", "suspend"},
     reset_device |-> {"slot"},
     transfer_no_op |-> {"num", "ent", "ch", "ioc"},
     setup |-> {"ptr", "num"},
     data |-> {"ptr", "num", "input"},
     status |-> {"input"},
     normal |-> {"ptr", "num", "endp", "slot", "ent", "isp", "chain", "ioc", "idt", "bei"}]

Numbers == {"slot", "endp", "ptr", "num"}

\* The values tried for the number f of constructor name: at and beyond
\* the edges of the fields; 0 for a number the constructor does not take.
Tried(name, f, values) == IF f \in Uses[name] THEN values ELSE {0}

\* Of the flags of a constructor: none, each one alone, all of them.
FlagChoices(name) ==
    LET F == Uses[name] \ Numbers IN {{}, F} \cup {{f} : f \in F}

\* The calls made.  The transfer kind of setup is one of the four variants.
Calls ==
    UNION {{[name |-> name, cycle |-> cycle, slot |-> slot, endp |-> endp,
             ptr |-> ptr, num |-> num, flags |-> flags] :
               cycle \in BOOLEAN,
               slot \in Tried(name, "slot", {0, 255}),
               endp \in Tried(name, "endp", {0, 31, 32, 255}),
               ptr \in Tried(name, "ptr", {4096, 4097, 4098, 4100, 4104}),
               num \in Tried(name, "num", IF name = "setup" THEN {0, 3} ELSE {0, 255}),
               flags \in FlagChoices(name)} : name \in DOMAIN Uses}

\* The call c, with the arguments in the order of the signature.
Build(c) ==
    LET on(f) == f \in c.flags
    IN CASE c.name = "reserved" -> reserved(c.cycle)
         [] c.name = "link" -> link(c.ptr, on("toggle"), c.cycle)
         [] c.name = "no_op_cmd" -> no_op_cmd(c.cycle)
         [] c.name = "enable_slot" -> enable_slot(c.num, c.cycle)
         [] c.name = "address_device" -> address_device(c.slot, c.ptr, on("bsr"), c.cycle)
         [] c.name = "configure_endpoint" -> configure_endpoint(c.slot, c.ptr, c.cycle)
         [] c.name = "evaluate_context" -> evaluate_context(c.slot, c.ptr, on("bsr"), c.cycle)
         [] c.name = "reset_endpoint" -> reset_endpoint(c.slot, c.endp, on("tsp"), c.cycle)
         [] c.name = "set_tr_deque_ptr" ->
                set_tr_deque_ptr(c.ptr, c.cycle, IF on("sct") THEN 1 ELSE 0, c.num, c.endp, c.slot)
         [] c.name = "stop_endpoint" -> stop_endpoint(c.slot, c.endp, on("suspend"), c.cycle)
         [] c.name = "reset_device" -> reset_device(c.slot, c.cycle)
         [] c.name = "transfer_no_op" ->
                transfer_no_op(c.num, on("ent"), on("ch"), on("ioc"), c.cycle)
         [] c.name = "setup" -> setup(c.ptr, c.num, c.cycle)
         [] c.name = "data" -> data(c.ptr, c.num, on("input"), c.cycle)
         [] c.name = "status" -> status(on("input"), c.cycle)
         [] c.name = "normal" ->
                normal(c.ptr, c.num, c.cycle, c.endp, c.slot, on("ent"), on("isp"),
                       on("chain"), on("ioc"), on("idt"), on("bei"))

RECURSIVE StoreAll(_, _)
StoreAll(t, ws) == IF ws = <<>> THEN t ELSE StoreAll(Store(t, Head(ws)), Tail(ws))

\* Software calls a constructor on the block; a failed assertion ends the
\* call before anything is stored.
Construct ==
    /\ call = <<>>
    /\ \E c \in Calls :
          /\ call' = [c |-> c, ok |-> Build(c).ok]
          /\ trb' = StoreAll(trb, Build(c).writes)
    /\ dec' = <<>>
    /\ UNCHANGED <<want, pend, reads, copy, seen, dispVars, pciVars, pass>>

\* Blocks as the controller leaves them in the event ring: a type, a slot, a
\* completion code and a parameter, among other bits of either value.
EventTrbs ==
    {[data |-> {},
      status |-> BitOr(Shl(Bits(code), 24, 32), Bits(param)),
      control |-> BitOr(BitOr(Shl(Bits(type), 10, 32), Shl(Bits(slot), 24, 32)), rest)] :
         code \in {1, 255}, param \in {4660, 16777215},
         type \in {0, 33, 63}, slot \in {0, 5, 255},
         rest \in {{}, (0..9) \cup (16..23)}}

\* Software reads the fields of the block.
Decode ==
    /\ dec' = [trb_type |-> trb_type(trb), event_slot |-> event_slot(trb),
               completion_code |-> completion_code(trb),
               completion_param |-> completion_param(trb),
               transfer_length |-> transfer_length(trb),
               endpoint_id |-> endpoint_id(trb)]
    /\ UNCHANGED <<trb, want, pend, reads, copy, seen, call, dispVars, pciVars, pass>>

CodecInit ==
    /\ trb \in EventTrbs
    /\ want = NoTrb /\ pend = <<>> /\ reads = <<>> /\ copy = NoTrb /\ seen = NoTrb
    /\ call = <<>> /\ dec = <<>>
    /\ DispIdle /\ PciIdle /\ PassIdle

CodecNext ==
    \/ Construct
    \/ Decode

CodecSpec == CodecInit /\ [][CodecNext]_vars

-----------------------------------------------------------------------------
\* pcid: PciBusIter, the iterator over the devices of one bus.

MaxNext == 35      \* calls of next() on one iterator

Buses == {0, 1, 255}             \* PciBus.num of the bus iterated

\* PciBusIter::new
PciBusIterNew(bus) == [bus |-> bus, num |-> 0]

\* Faulty variant of next: the bound is inclusive.
PciBusIterNextInclusive(it) ==
    IF it.num <= 32
    THEN [item |-> <<[bus |-> it.bus, num |-> it.num % 256]>>,
          iter |-> [it EXCEPT !.num = @ + 1]]
    ELSE [item |-> <<>>, iter |-> it]

\* Iterator::next: the Option returned (<<>> is None) and the iterator
\* afterwards.  `as u8` keeps the low eight bits; num + 1 cannot overflow the
\* u32 below 32.
PciBusIterNext(it) ==
    IF it.num < 32
    THEN [item |-> <<[bus |-> it.bus, num |-> it.num % 256]>>,
          iter |-> [it EXCEPT !.num = @ + 1]]
    ELSE [item |-> <<>>, iter |-> it]

PciNext ==
    /\ Len(yielded) < MaxNext
    /\ iter' = PciBusIterNext(iter).iter
    /\ yielded' = Append(yielded, PciBusIterNext(iter).item)
    /\ UNCHANGED <<dispVars, trbVars, pass>>

PciInit ==
    /\ \E bus \in Buses : iter = PciBusIterNew(bus)
    /\ yielded = <<>>
    /\ DispIdle /\ TrbIdle /\ PassIdle

PciSpec == PciInit /\ [][PciNext]_vars

-----------------------------------------------------------------------------
\* One retry pass, one iteration of the loop per step: the loops of
\* E1000Retry and NvmedRetry unrolled, from the state in which the event
\* enters the loop to the return to the event wait.

\* The handler state on entry of the loop.
PassEntry(d) ==
    IF d = "e1000d"
    THEN Note(Note(Start(Entry("irq_read", DefaultPacket, IrqLen)),
                   Entry("claim", DefaultPacket, 1)),
              Entry("ack", DefaultPacket, 1))
    ELSE Note(Note(Start(Entry("event", DefaultPacket, 0)),
                   Entry("irq_read", DefaultPacket, 0)),
              Entry("claim", DefaultPacket, 0))

\* while i < todo.len(), and no write has failed
PassGoesOn == pass.st.ok /\ pass.st.i <= Len(pass.st.todo)

E1000PassStep ==
    /\ drv = "e1000d" /\ ~pass.done /\ PassGoesOn
    /\ pass' = [pass EXCEPT !.st = E1000RetryBody(@, pass.wfail)]
    /\ UNCHANGED <<dispVars, trbVars, pciVars>>

NvmedPassStep ==
    /\ drv = "nvmed" /\ ~pass.done /\ PassGoesOn
    /\ pass' = [pass EXCEPT !.st = NvmedRetryBody(@, pass.wfail)]
    /\ UNCHANGED <<dispVars, trbVars, pciVars>>

\* The loop is left: the callback returns (or the driver ends on a failed
\* write) with what the pass did.
PassReturn ==
    /\ ~pass.done /\ ~PassGoesOn
    /\ pass' = [pass EXCEPT !.done = TRUE]
    /\ todo' = pass.st.todo
    /\ resp' = pass.st.resp
    /\ log' = pass.st.log
    /\ running' = pass.st.ok
    /\ UNCHANGED <<drv, nextId, dev, trbVars, pciVars>>

PassInit ==
    /\ drv \in Drivers
    /\ running = TRUE
    /\ \E n \in 0..MaxReq : \E sh \in [1..n -> Shapes] :
          todo = [j \in 1..n |-> Packet(j, sh[j][1], sh[j][2])]
    /\ nextId = Len(todo) + 1
    /\ dev \in [1..MaxReq -> {WouldBlock} \cup Results]
    /\ resp = [r \in 1..MaxReq |-> <<>>]
    /\ log = <<>>
    /\ \E wfail \in 0..Writes(todo) :
          pass = [st |-> PassEntry(drv), wfail |-> wfail, n |-> Len(todo), done |-> FALSE]
    /\ TrbIdle /\ PciIdle

PassNext ==
    \/ E1000PassStep
    \/ NvmedPassStep
    \/ PassReturn

\* The driver keeps executing the loop.
PassSpec == PassInit /\ [][PassNext]_vars /\ WF_vars(PassNext)

-----------------------------------------------------------------------------
\* Vocabulary of the properties.

Sent == 1..(nextId - 1)                       \* requests read from the transport
Parked(r) == Cardinality({i \in 1..Len(todo) : todo[i].id = r})
Answers(r) == Len(resp[r])
Pos(op) == {i \in 1..Len(log) : log[i].op = op}
Did(op, r) == \E i \in Pos(op) : log[i].id = r
DispatchOps == {"handle", "push", "write", "write_err"}
ClaimReturned(v) == \E i \in Pos("claim") : log[i].v = v
OfOp(l, op) == SelectSeq(l, LAMBDA e : e.op = op)     \* the entries of one kind
Ids(s) == [k \in 1..Len(s) |-> s[k].id]
Blocked(h) == SelectSeq(h, LAMBDA e : e.v = WouldBlock)

-----------------------------------------------------------------------------
\* C1: while the driver runs, every request read from the transport is
\* either held exactly once in todo and not answered, or not in todo and
\* answered exactly once; a request not read yet is neither.
C1_HeldOnceOrAnsweredOnce ==
    running =>
        \A r \in 1..MaxReq :
            IF r \in Sent
            THEN \/ Parked(r) = 1 /\ Answers(r) = 0
                 \/ Parked(r) = 0 /\ Answers(r) = 1
            ELSE Parked(r) = 0 /\ Answers(r) = 0

\* A retry pass has answered one request and left another one parked.
C1_Witness ==
    /\ running
    /\ \E r1 \in Sent, r2 \in Sent :
          /\ Parked(r1) = 1 /\ Did("handle", r1)
          /\ Answers(r2) = 1 /\ Did("write", r2) /\ r2 < r1
    /\ Pos("irq_read") # {}

\* C3: todo is ordered by arrival: of two parked requests the one read
\* earlier (the smaller id) is at the lower index.  Ids grow with arrival, so
\* an append anywhere but at the tail or a reordering retry breaks it.
C3_TodoInArrivalOrder ==
    \A i \in 1..Len(todo), j \in 1..Len(todo) : i < j => todo[i].id < todo[j].id

\* Three requests were parked, the middle one has been completed by a retry
\* pass and a later request was parked behind the two that remain.
C3_Witness ==
    /\ Len(todo) >= 2
    /\ \E r \in Sent : Answers(r) = 1 /\ todo[1].id < r /\ r < todo[Len(todo)].id

C2_RetryBeforeNewRequest ==
    [][\A i \in 1..Len(log') : \A j \in 1..Len(todo) :
          (log'[i].op = "handle" /\ todo[j].id < log'[i].id /\ todo[j].b = log'[i].b)
              => \E k \in 1..(i - 1) : log'[k].op = "handle" /\ log'[k].id = todo[j].id]_vars

\* C5: after a claim check that returned false the event dispatches
\* nothing: no handler is invoked and nothing is written to the client.
C5_UnclaimedDispatchesNothing ==
    ClaimReturned(0) => \A i \in 1..Len(log) : log[i].op \notin DispatchOps

\* C7: a zero-length read of the socket ends the driver, and no request is
\* made from it: after it no handler runs and nothing is parked or written.
C7_ZeroReadEndsLoop ==
    \A i \in Pos("read") :
        log[i].v = 0 =>
            /\ ~running
            /\ \A j \in (i + 1)..Len(log) : log[j].op \notin DispatchOps

\* C8: a socket read that fails with "no data yet" leaves the driver
\* running (unless a later write of the same event fails) and parks
\* nothing; any other failed read or write ends the driver.
C8_NoDataIsNotFatal ==
    /\ \A i \in Pos("read") :
          log[i].v = WouldBlock =>
              /\ running \/ Pos("write_err") # {}
              /\ \A j \in (i + 1)..Len(log) : log[j].op # "push"
    /\ (Pos("write_err") # {} \/ \E i \in Pos("read") : log[i].v = -5) => ~running

\* C9: a handler outcome other than would-block completes the request: the
\* next thing the driver does is write the response carrying that outcome,
\* and once written the request is out of todo with that one response.  A
\* request is handled once per event and only while it has no response, so
\* it is never handled again after it completed.
C9_OutcomeCompletesRequest ==
    \A i \in Pos("handle") :
        LET r == log[i].id
            v == log[i].v
        IN /\ \A k \in Pos("handle") : log[k].id = r => k = i
           /\ v = WouldBlock => Parked(r) = 1 /\ Answers(r) = 0
           /\ v # WouldBlock =>
                 /\ i < Len(log)
                 /\ log[i + 1].op \in {"write", "write_err"}
                 /\ log[i + 1].id = r /\ log[i + 1].v = v
                 /\ log[i + 1].op = "write" =>
                       /\ Parked(r) = 0
                       /\ r \in Sent => resp[r] = <<v>>
                 /\ log[i + 1].op = "write_err" => ~running

\* A genuine device error was written back as the response of a request
\* that a retry pass took out of todo.
C9_Witness ==
    \E i \in Pos("handle") :
        /\ log[i].v = -5 /\ log[i].id \in Sent
        /\ resp[log[i].id] = <<-5>>
        /\ Pos("irq_read") # {} /\ Len(todo) >= 1

\* C10: when an event in which the device claims the interrupt runs through
\* without a failed write, every request that was parked and whose handler
\* no longer blocks is out of todo afterwards, and its response was written
\* in that event, with no read of the socket before it.
C10_ParkedResolvedByInterrupt ==
    [][\A j \in 1..Len(todo) :
          (running' /\ (\E i \in 1..Len(log') : log'[i].op = "claim" /\ log'[i].v = 1)
                    /\ Handle(todo[j]) # WouldBlock)
              => /\ \A k \in 1..Len(todo') : todo'[k].id # todo[j].id
                 /\ resp'[todo[j].id] = <<Handle(todo[j])>>
                 /\ \E w \in 1..Len(log') :
                       /\ log'[w].op = "write" /\ log'[w].id = todo[j].id
                       /\ \A k \in 1..w : log'[k].op # "read"]_vars

\* A claimed interrupt retried a request that still blocks and, behind it,
\* answered one that no longer does.
C10_Witness ==
    /\ ClaimReturned(1) /\ running
    /\ \E i \in Pos("handle"), w \in Pos("write") :
          i < w /\ log[i].v = WouldBlock /\ log[w].id > log[i].id

C11_AckBeforeRetry ==
    ClaimReturned(1) =>
        /\ \A c \in Pos("claim") : \E k \in Pos("irq_read") : k < c /\ log[k].v = IrqLen
        /\ \A a \in Pos("ack") : \E c \in Pos("claim") : c < a
        /\ \A h \in Pos("handle") :
              \E a \in Pos("ack") : a < h /\ log[a].v = 1

\* A claimed interrupt was acknowledged and two parked requests were retried
\* after it.
C11_Witness ==
    /\ ClaimReturned(1)
    /\ \E a \in Pos("ack"), h1 \in Pos("handle"), h2 \in Pos("handle") :
          log[a].v = 1 /\ a < h1 /\ h1 < h2

\* C12: Trb::set stores the control word, which holds the cycle bit, after
\* the data and status words: whatever the controller fetches while the
\* stores are under way, a control word that shows the new cycle bit comes
\* with the new data and status words.
C12_CycleBitStoredLast ==
    (call = <<"set">> /\ Cycle(seen.control) = Cycle(want.control))
        => seen.data = want.data /\ seen.status = want.status

\* The controller fetched the block after the data word was stored and
\* before the control word was: it still shows the old cycle bit.
C12_Witness ==
    /\ call = <<"set">> /\ Len(pend) = 2
    /\ seen.data = want.data /\ seen.data # {}
    /\ seen.status # want.status
    /\ Cycle(seen.control) # Cycle(want.control)

\* C13: Trb::clone loads the control word before the data and status words,
\* so a finished copy whose cycle bit is the one the controller produced
\* holds the data and status words the controller produced with it.
C13_CloneReadsControlFirst ==
    (call = <<"clone">> /\ reads = <<>> /\ want # NoTrb
        /\ Cycle(copy.control) = Cycle(want.control))
        => copy.data = want.data /\ copy.status = want.status

\* C14: the accessors return fixed bit fields: trb_type is bits 15..10 of
\* the control word and event_slot its bits 31..24, completion_code is bits
\* 31..24 of the status word, completion_param and transfer_length are its
\* bits 23..0, whatever the other bits are; CommandCompletion is type 33 and
\* Success is completion code 1.
C14_AccessorsReadFixedFields ==
    /\ TrbType("CommandCompletion") = 33 /\ TrbCompletionCode("Success") = 1
    /\ dec # <<>> =>
          /\ dec.trb_type \in 0..63 /\ dec.event_slot \in 0..255
          /\ dec.completion_code \in 0..255
          /\ \A b \in 0..5 : ((dec.trb_type \div (2 ^ b)) % 2 = 1) <=> (b + 10) \in trb.control
          /\ \A b \in 0..7 : ((dec.event_slot \div (2 ^ b)) % 2 = 1) <=> (b + 24) \in trb.control
          /\ \A b \in 0..7 : ((dec.completion_code \div (2 ^ b)) % 2 = 1) <=> (b + 24) \in trb.status
          /\ dec.completion_param \in 0..16777215
          /\ \A b \in 0..23 : ((dec.completion_param \div (2 ^ b)) % 2 = 1) <=> b \in trb.status
          /\ dec.transfer_length = dec.completion_param

\* A command completion event for slot 5 with code Success was decoded from
\* words whose other bits are set.
C14_Witness ==
    /\ dec # <<>>
    /\ dec.trb_type = 33 /\ dec.event_slot = 5 /\ dec.completion_code = 1
    /\ dec.completion_param = 4660
    /\ {0, 9, 16, 23} \subseteq trb.control

\* C15: the k-th call of next() on a PciBusIter returns the device k - 1 of
\* the iterated bus for k = 1..32 and None from the 33rd call on; the
\* counter is the number of devices returned and never exceeds 32, so the
\* cast to u8 loses nothing.
C15_ThirtyTwoDevicesInOrder ==
    iter # <<>> =>
        /\ iter.num <= 32
        /\ iter.num = (IF Len(yielded) < 32 THEN Len(yielded) ELSE 32)
        /\ \A k \in 1..Len(yielded) :
              yielded[k] = (IF k <= 32 THEN <<[bus |-> iter.bus, num |-> k - 1]>> ELSE <<>>)

\* The iterator of bus 255 returned its last device and then None twice.
C15_Witness ==
    /\ Len(yielded) >= 34
    /\ yielded[32] = <<[bus |-> 255, num |-> 31]>>
    /\ yielded[33] = <<>> /\ yielded[34] = <<>>

\* C16: a retry pass that runs to its end invokes the handler exactly once
\* for each request parked when it starts, oldest first: the handled ids are
\* the ids of the list at the start of the pass (todo at the start of the
\* event, then what the event pushed), in that order; afterwards todo holds
\* exactly the requests whose attempt returned would-block, in that order.
C16_PassRetriesEachOnceInOrder ==
    [][(running' /\ log' # <<>>
          /\ (drv = "nvmed" \/ \E i \in 1..Len(log') : log'[i].op = "claim" /\ log'[i].v = 1))
          => /\ Ids(OfOp(log', "handle")) = Ids(todo) \o Ids(OfOp(log', "push"))
             /\ Ids(todo') = Ids(Blocked(OfOp(log', "handle")))]_vars

\* A pass over three parked requests answered the first, kept the second
\* and answered the third.
C16_Witness ==
    /\ running /\ Len(todo) = 1
    /\ \E h1 \in Pos("handle"), h2 \in Pos("handle"), h3 \in Pos("handle") :
          /\ h1 < h2 /\ h2 < h3
          /\ log[h1].v # WouldBlock /\ log[h2].v = WouldBlock /\ log[h3].v # WouldBlock
          /\ todo[1].id = log[h2].id

\* C17: every retry pass ends.  Each iteration of the loop either moves the
\* index to the next place or takes one entry out of todo (or a write
\* fails, which ends the pass and the driver); the handler is never
\* invoked more often than the list had entries at the start, and a pass
\* that no failed write cuts short returns to the event wait after exactly
\* that many invocations.
C17_PassTerminates ==
    /\ <>(pass.done)
    /\ [][(pass'.st # pass.st) =>
             \/ pass'.st.i = pass.st.i + 1 /\ Len(pass'.st.todo) = Len(pass.st.todo)
             \/ pass'.st.i = pass.st.i /\ Len(pass'.st.todo) = Len(pass.st.todo) - 1
             \/ ~pass'.st.ok]_vars
    /\ [](Len(OfOp(pass.st.log, "handle")) <= pass.n)
    /\ []((pass.done /\ pass.st.ok) =>
             running /\ Len(OfOp(pass.st.log, "handle")) = pass.n)

\* A pass over three parked requests has returned to the event wait after
\* three invocations, with some requests answered and some kept.
C17_Witness ==
    /\ pass # <<>> /\ pass.done /\ pass.st.ok /\ running
    /\ pass.n = 3 /\ Len(OfOp(log, "handle")) = 3
    /\ Len(todo) \in 1..2

\* C18: a block built by a constructor whose arguments passed its checks
\* decodes to the constructor's type tag and has the cycle argument in bit
\* 0; where a slot id and an endpoint number were passed, event_slot and
\* endpoint_id return them.  So no flag or identifier reaches into the type
\* field or the cycle bit.
C18_ConstructorsRoundTrip ==
    (call # <<>> /\ call.ok) =>
        LET c == call.c
            tag == [reserved |-> "Reserved", link |-> "Link", no_op_cmd |-> "NoOpCmd",
                    enable_slot |-> "EnableSlot", address_device |-> "AddressDevice",
                    configure_endpoint |-> "ConfigureEndpoint",
                    evaluate_context |-> "EvaluateContext",
                    reset_endpoint |-> "ResetEndpoint",
                    set_tr_deque_ptr |-> "SetTrDequeuePointer",
                    stop_endpoint |-> "StopEndpoint", reset_device |-> "ResetDevice",
                    transfer_no_op |-> "NoOp", setup |-> "SetupStage",
                    data |-> "DataStage", status |-> "StatusStage", normal |-> "Normal"]
        IN /\ trb_type(trb) = TrbType(tag[c.name])
           /\ (0 \in trb.control) = c.cycle
           /\ c.name \in {"address_device", "configure_endpoint", "evaluate_context",
                          "reset_endpoint", "set_tr_deque_ptr", "stop_endpoint",
                          "reset_device"} => event_slot(trb) = c.slot
           /\ c.name \in {"reset_endpoint", "set_tr_deque_ptr", "stop_endpoint"}
                 => endpoint_id(trb) = c.endp

\* stop_endpoint was called for slot 255 and endpoint 31 with the suspend
\* flag and the cycle bit; the flag is bit 23 of the control word.
C18_Witness ==
    /\ call # <<>> /\ call.ok
    /\ call.c.name = "stop_endpoint" /\ call.c.slot = 255 /\ call.c.endp = 31
    /\ call.c.flags = {"suspend"} /\ call.c.cycle
    /\ 23 \in trb.control

\* C19: in e1000d the would-block sentinel is never kept in todo, and while
\* the driver runs every parked packet has the operation code it was
\* submitted with (the code that belongs to its b), after the first
\* submission and after every failed retry.
C19_ParkedKeepsSubmittedOp ==
    drv = "e1000d" =>
        \A i \in 1..Len(todo) :
            /\ todo[i].a # WouldBlock
            /\ running => <<todo[i].a, todo[i].b>> \in Shapes

\* A request of e1000d parked by an earlier event was retried in this one,
\* would still block, and is in todo with its operation code.
C19_Witness ==
    /\ drv = "e1000d" /\ running /\ ClaimReturned(1)
    /\ \E h \in Pos("handle"), i \in 1..Len(todo) :
          /\ log[h].v = WouldBlock /\ log[h].id = todo[i].id
          /\ todo[i].a \in Ops

\* C20: every response nvmed writes is the packet of the request whose
\* handler has just returned, with a replaced by that result: it directly
\* follows the handler call of the same id and carries its value, which is
\* the device's answer for that id, and its id and b are those of the
\* request as it was parked or pushed, however many entries the pass has
\* removed before.
C20_ResponseIsOwnPacket ==
    [][drv = "nvmed" =>
          \A w \in 1..Len(log') :
              log'[w].op \in {"write", "write_err"} =>
                  /\ w > 1 /\ log'[w - 1].op = "handle"
                  /\ log'[w - 1].id = log'[w].id /\ log'[w - 1].v = log'[w].v
                  /\ log'[w].v = dev[log'[w].id]
                  /\ \/ \E j \in 1..Len(todo) :
                           todo[j].id = log'[w].id /\ todo[j].b = log'[w].b
                     \/ \E k \in 1..(w - 1) :
                           /\ log'[k].op = "push"
                           /\ log'[k].id = log'[w].id /\ log'[k].b = log'[w].b]_vars

\* One pass of nvmed answered two requests with different targets, the
\* second after the first had been removed.
C20_Witness ==
    /\ drv = "nvmed" /\ running
    /\ \E w1 \in Pos("write"), w2 \in Pos("write") :
          w1 < w2 /\ log[w1].id < log[w2].id /\ log[w1].b # log[w2].b

\* C21: a constructor called with arguments its precondition excludes
\* aborts and leaves the block as it was: a context pointer that is not a
\* multiple of 16 for address_device, configure_endpoint and
\* evaluate_context, a dequeue pointer with one of bits 1..3 set for
\* set_tr_deque_ptr, an endpoint number above 31 for reset_endpoint,
\* stop_endpoint and set_tr_deque_ptr, a TD size above 31 for normal.
C21_RejectedCallStoresNothing ==
    [][(call = <<>> /\ call' # <<>>) =>
          LET c == call'.c
              excluded ==
                  \/ /\ c.name \in {"address_device", "configure_endpoint", "evaluate_context"}
                     /\ c.ptr % 16 # 0
                  \/ c.name = "set_tr_deque_ptr" /\ (c.ptr \div 2) % 8 # 0
                  \/ /\ c.name \in {"reset_endpoint", "stop_endpoint", "set_tr_deque_ptr",
                                    "normal"}
                     /\ c.endp > 31
          IN excluded => (~call'.ok /\ trb' = trb)]_vars

\* set_tr_deque_ptr was called with bit 1 of the dequeue pointer set and
\* aborted; the block is still the event the controller had left in it.
C21_Witness ==
    /\ call # <<>> /\ ~call.ok
    /\ call.c.name = "set_tr_deque_ptr" /\ call.c.ptr = 4098 /\ call.c.endp = 31
    /\ trb \in EventTrbs /\ trb_type(trb) = 33 /\ trb.status # {}

====
